---- MODULE Spec2Model ----
(***************************************************************************)
(* Model of deploy() in src/main.ts: one run of the FTP deployment against *)
(* a remote store reached through a single basic-ftp session.  The remote  *)
(* store is a tree of directories and files addressed by absolute paths    *)
(* (sequences of names); the session has one current working directory.   *)
(***************************************************************************)
EXTENDS Integers, Sequences, FiniteSets, TLC

VARIABLES pc, cleanSlate, localTree, localFiles, localState, serverFiles,
          fetched, diffs, idx, cwd, remoteDirs, remoteFiles, remote0, ops, log,
          result, closed, fatal, run, inflight

vars == <<pc, cleanSlate, localTree, localFiles, localState, serverFiles,
          fetched, diffs, idx, cwd, remoteDirs, remoteFiles, remote0, ops, log,
          result, closed, fatal, run, inflight>>

(***************************************************************************)
(* Bounds of the model.                                                    *)
(***************************************************************************)
\* number of distinct contents a file can have
MaxVersion == 2
\* number of times deploy() is run against the same remote store
MaxRuns == 2
\* depth of the directory the session is in after login (the synchronization root)
RootDepth == 1

(***************************************************************************)
(* Program constants.                                                      *)
(***************************************************************************)
\* ErrorCode.FileNotFoundOrNoAccess of ./types (FTP reply 550)
FileNotFoundOrNoAccess == 550
\* the literal of main.ts line 388
NoUploadAccess == 553
\* the reply codes a failing transfer operation is given in the model
ErrCodes == {FileNotFoundOrNoAccess, NoUploadAccess, 451}

\* args["state-name"]
StateName == <<"s">>

(***************************************************************************)
(* Paths are sequences of names; "d/b" is <<"d", "b">>.                     *)
(***************************************************************************)
FilePaths == {<<"a">>, <<"d", "b">>, StateName}
FolderPaths == {<<"d">>, <<"d", "e">>}

Front(s) == SubSeq(s, 1, Len(s) - 1)
Last(s) == s[Len(s)]
IsPrefix(t, p) == Len(t) <= Len(p) /\ SubSeq(p, 1, Len(t)) = t

\* the local objects the directory walk can meet
LocalObjects ==
  {[type |-> "file", name |-> <<"d", "b">>, content |-> v] : v \in 1..MaxVersion}
  \cup {[type |-> "file", name |-> p, content |-> 1] : p \in {<<"a">>, StateName}}
  \cup {[type |-> "folder", name |-> p, content |-> 0] : p \in FolderPaths}

\* a local tree: one object per path, every object below a listed folder
TreesOf(Objects) ==
  {T \in SUBSET Objects :
      /\ \A x, y \in T : x.name = y.name => x = y
      /\ \A x \in T : Len(x.name) > 1 =>
            \E y \in T : y.type = "folder" /\ y.name = Front(x.name)}

Trees == TreesOf(LocalObjects)

\* the objects of a tree in which the path k is a file at one time and a
\* folder (with a file c inside) at another
KindObjects ==
  {[type |-> "file", name |-> <<"k">>, content |-> v] : v \in 1..MaxVersion}
  \cup {[type |-> "folder", name |-> <<"k">>, content |-> 0],
        [type |-> "file", name |-> <<"k", "c">>, content |-> 1]}

KindTrees == TreesOf(KindObjects)

(***************************************************************************)
(* Inventories (IFileList) and the state document.                         *)
(***************************************************************************)
\* one Record of getLocalFiles: folders carry no size and no hash (0 here)
Record(obj) ==
  IF obj.type = "folder"
    THEN [type |-> "folder", name |-> obj.name, size |-> 0, hash |-> 0]
    ELSE [type |-> "file", name |-> obj.name, size |-> obj.content,
          hash |-> obj.content]

\* getLocalFiles: a record per directory and per regular file
getLocalFiles(tree) ==
  [complete |-> TRUE, data |-> {Record(obj) : obj \in tree}]

\* the serverFiles of the catch block, lines 335-340
EmptyFileList == [complete |-> TRUE, data |-> {}]

\* The content of a file.  json: the bytes are JSON text; complete: the JSON
\* value has description, version and generatedTime; data: its data array;
\* hash: the content identity of an ordinary file.
Blob(v) == [json |-> FALSE, complete |-> FALSE, data |-> {}, hash |-> v]

\* JSON.stringify(localFiles, undefined, 4), line 295
Stringify(list) ==
  [json |-> TRUE, complete |-> list.complete, data |-> list.data, hash |-> 0]

\* JSON.parse(file), line 110: the value the text denotes, whatever its shape
JsonParses(doc) == doc.json
JsonParse(doc) == [complete |-> doc.complete, data |-> doc.data]

(***************************************************************************)
(* getFileBreadcrumbs.  fullPath.split("/") is the sequence of names; a     *)
(* folder path with "/" appended splits into its names followed by "".      *)
(* null folders are <<>> and a null file is "".                             *)
(***************************************************************************)
WithSlash(folderPath) == Append(folderPath, "")

getFileBreadcrumbs(fullPath) ==
  [folders |-> SelectSeq(Front(fullPath), LAMBDA n : n # ""),
   file |-> Last(fullPath)]

(***************************************************************************)
(* HashDiff.getDiffs (./HashDiff), after section 4.4 of the specification. *)
(***************************************************************************)
NameOrder == <<"a", "b", "c", "d", "e", "k", "s">>
NameRank(n) == CHOOSE i \in 1..Len(NameOrder) : NameOrder[i] = n

\* ascending path order: "d" < "d/b" < "d/e"
RECURSIVE PathLeq(_, _)
PathLeq(p, q) ==
  IF p = <<>> THEN TRUE
  ELSE IF q = <<>> THEN FALSE
  ELSE IF p[1] = q[1] THEN PathLeq(Tail(p), Tail(q))
  ELSE NameRank(p[1]) < NameRank(q[1])

RECURSIVE SortByPath(_)
SortByPath(S) ==
  IF S = {} THEN <<>>
  ELSE LET m == CHOOSE x \in S : \A y \in S : PathLeq(x.name, y.name)
       IN  <<m>> \o SortByPath(S \ {m})

RECURSIVE SumSize(_)
SumSize(S) ==
  IF S = {} THEN 0
  ELSE LET x == CHOOSE y \in S : TRUE IN x.size + SumSize(S \ {x})

\* a diff that pairs the entries of the two inventories by path alone
getDiffsByPath(local, server) ==
  LET cur == local.data
      prev == server.data
      up == {e \in cur : ~ \E p \in prev : e.name = p.name}
      del == {p \in prev : ~ \E e \in cur : e.name = p.name}
      rep == {e \in cur : e.type = "file" /\
                \E p \in prev : e.name = p.name /\ p.type = "file" /\
                                (p.hash # e.hash \/ p.size # e.size)}
  IN  [upload |-> SortByPath(up), delete |-> SortByPath(del),
       replace |-> SortByPath(rep),
       sizeUpload |-> SumSize(up), sizeDelete |-> SumSize(del),
       sizeReplace |-> SumSize(rep)]

getDiffs(local, server) ==
  LET cur == local.data
      prev == server.data
      SameKind(e, p) == e.name = p.name /\ e.type = p.type
      up == {e \in cur : ~ \E p \in prev : SameKind(e, p)}
      del == {p \in prev : ~ \E e \in cur : SameKind(e, p)}
      rep == {e \in cur : e.type = "file" /\
                \E p \in prev : SameKind(e, p) /\
                                (p.hash # e.hash \/ p.size # e.size)}
  IN  [upload |-> SortByPath(up), delete |-> SortByPath(del),
       replace |-> SortByPath(rep),
       sizeUpload |-> SumSize(up), sizeDelete |-> SumSize(del),
       sizeReplace |-> SumSize(rep)]

NoDiffs ==
  [upload |-> <<>>, delete |-> <<>>, replace |-> <<>>,
   sizeUpload |-> 0, sizeDelete |-> 0, sizeReplace |-> 0]

(***************************************************************************)
(* The transfer client (basic-ftp) at its interface.  A session s is a     *)
(* record [cwd, dirs, files]: the working directory, the remote            *)
(* directories and the remote files with their content.                    *)
(***************************************************************************)
Prefixes(base, rel) == {base \o SubSeq(rel, 1, k) : k \in 1..Len(rel)}

\* client.ensureDir(rel): make every directory of rel below cwd, end inside it
EnsureDirBlocked(s, rel) == \E p \in Prefixes(s.cwd, rel) : p \in DOMAIN s.files
EnsureDir(s, rel) ==
  [s EXCEPT !.cwd = s.cwd \o rel, !.dirs = s.dirs \cup Prefixes(s.cwd, rel)]

\* client.uploadFrom(local, name): write the content at cwd/name
UploadBlocked(s, name) == (s.cwd \o <<name>>) \in s.dirs
UploadFrom(s, name, content) ==
  LET target == s.cwd \o <<name>>
  IN  [s EXCEPT !.files = [p \in DOMAIN s.files \cup {target} |->
                             IF p = target THEN content ELSE s.files[p]]]

\* client.remove(name): delete the file cwd/name
RemoveMissing(s, name) == (s.cwd \o <<name>>) \notin DOMAIN s.files
Remove(s, name) ==
  [s EXCEPT !.files = [p \in DOMAIN s.files \ {s.cwd \o <<name>>} |-> s.files[p]]]

\* client.removeDir(rel): delete the directory cwd/rel with everything below
\* it; the working directory is the same afterwards
RemoveDirMissing(s, rel) == (s.cwd \o rel) \notin s.dirs
RemoveDir(s, rel) ==
  LET target == s.cwd \o rel
  IN  [s EXCEPT !.dirs = {d \in s.dirs : ~ IsPrefix(target, d)},
                !.files = [p \in {q \in DOMAIN s.files : ~ IsPrefix(target, q)}
                             |-> s.files[p]]]

\* client.cdup(): the parent directory; the top directory is its own parent
CdUp(s) == [s EXCEPT !.cwd = IF s.cwd = <<>> THEN <<>> ELSE Front(s.cwd)]

\* client.clearWorkingDir(): delete everything below cwd
ClearWorkingDir(s) ==
  [s EXCEPT !.dirs = {d \in s.dirs : ~ (IsPrefix(s.cwd, d) /\ d # s.cwd)},
            !.files = [p \in {q \in DOMAIN s.files : ~ IsPrefix(s.cwd, q)}
                         |-> s.files[p]]]

(***************************************************************************)
(* The per-entry handlers.  Each returns [s, ops, err]: the session after  *)
(* it, the remote operations it issued, and the reply code of the error it *)
(* threw (0: it returned).  failAt names the operation the server refuses  *)
(* (0 none, 1 the directory operation, 2 the file operation, 3 the first   *)
(* cdup) and code is the reply it gives.                                   *)
(***************************************************************************)
\* a remote operation issued on the session: its name, the absolute path it
\* acts on, the server's reply (0: success) and what the caller made of it
Op(name, target, res, reply) ==
  [op |-> name, target |-> target, res |-> res, reply |-> reply]

Returned(s) == [s |-> s, ops |-> <<>>, err |-> 0]
Issue(r, s, op) == [s |-> s, ops |-> Append(r.ops, op), err |-> 0]
Throw(r, op, code) == [s |-> r.s, ops |-> Append(r.ops, op), err |-> code]

\* a handler that rethrows every error of a delete
ToleratedNever(code) == FALSE

\* the test of the catch blocks of removeFolder and removeFile
Tolerated(code) == code = FileNotFoundOrNoAccess

\* upDir: dirCount times client.cdup()
RECURSIVE upDir(_, _, _, _)
upDir(r, dirCount, refuse, code) ==
  IF r.err # 0 \/ dirCount <= 0 THEN r
  ELSE IF refuse THEN Throw(r, Op("cdup", r.s.cwd, "fatal", code), code)
  ELSE upDir(Issue(r, CdUp(r.s), Op("cdup", r.s.cwd, "ok", 0)),
             dirCount - 1, FALSE, code)

\* await client.ensureDir(path.folders.join("/")) when path.folders is not null
ChangeDir(r, folders, refuse, code) ==
  LET target == r.s.cwd \o folders IN
  IF r.err # 0 \/ folders = <<>> THEN r
  ELSE IF EnsureDirBlocked(r.s, folders)
    THEN Throw(r, Op("ensureDir", target, "fatal", FileNotFoundOrNoAccess),
               FileNotFoundOrNoAccess)
  ELSE IF refuse THEN Throw(r, Op("ensureDir", target, "fatal", code), code)
  ELSE Issue(r, EnsureDir(r.s, folders), Op("ensureDir", target, "ok", 0))

uploadFile(s, filePath, content, failAt, code) ==
  LET path == getFileBreadcrumbs(filePath)
      r1 == ChangeDir(Returned(s), path.folders, failAt = 1, code)
      target == r1.s.cwd \o <<path.file>>
      r2 == IF r1.err # 0 \/ path.file = "" THEN r1
            ELSE IF UploadBlocked(r1.s, path.file)
              THEN Throw(r1, Op("uploadFrom", target, "fatal", FileNotFoundOrNoAccess),
                         FileNotFoundOrNoAccess)
            ELSE IF failAt = 2 THEN Throw(r1, Op("uploadFrom", target, "fatal", code), code)
            ELSE Issue(r1, UploadFrom(r1.s, path.file, content),
                       Op("uploadFrom", target, "ok", 0))
  IN  upDir(r2, Len(path.folders), failAt = 3, code)

createFolder(s, folderPath, failAt, code) ==
  LET path == getFileBreadcrumbs(WithSlash(folderPath))
      r1 == ChangeDir(Returned(s), path.folders, failAt = 1, code)
  IN  upDir(r1, Len(path.folders), failAt = 3, code)

removeFolder(s, folderPath, failAt, code) ==
  LET path == getFileBreadcrumbs(WithSlash(folderPath))
      r0 == Returned(s)
      target == s.cwd \o path.folders
      reply == IF RemoveDirMissing(s, path.folders) THEN FileNotFoundOrNoAccess
               ELSE IF failAt = 1 THEN code ELSE 0
      r1 == IF path.folders = <<>> THEN r0
            ELSE IF reply = 0
              THEN Issue(r0, RemoveDir(s, path.folders), Op("removeDir", target, "ok", 0))
            ELSE IF Tolerated(reply)
              THEN Issue(r0, s, Op("removeDir", target, "tolerated", reply))
            ELSE Throw(r0, Op("removeDir", target, "fatal", reply), reply)
  IN  upDir(r1, Len(path.folders), failAt = 3, code)

removeFile(s, filePath, failAt, code) ==
  LET path == getFileBreadcrumbs(filePath)
      r1 == ChangeDir(Returned(s), path.folders, failAt = 1, code)
      target == r1.s.cwd \o <<path.file>>
      reply == IF RemoveMissing(r1.s, path.file) THEN FileNotFoundOrNoAccess
               ELSE IF failAt = 2 THEN code ELSE 0
      r2 == IF r1.err # 0 \/ path.file = "" THEN r1
            ELSE IF reply = 0
              THEN Issue(r1, Remove(r1.s, path.file), Op("remove", target, "ok", 0))
            ELSE IF Tolerated(reply)
              THEN Issue(r1, r1.s, Op("remove", target, "tolerated", reply))
            ELSE Throw(r1, Op("remove", target, "fatal", reply), reply)
  IN  upDir(r2, Len(path.folders), failAt = 3, code)

(***************************************************************************)
(* deploy().                                                               *)
(***************************************************************************)
\* the directory the session is in after client.access
Root == [i \in 1..RootDepth |-> "r"]

Sess == [cwd |-> cwd, dirs |-> remoteDirs, files |-> remoteFiles]

\* the lists the five loops of lines 357-381 iterate over
IsFolder(item) == item.type = "folder"
IsFile(item) == item.type = "file"
NotState(item) == item.name # StateName

foldersToCreate(d) == SelectSeq(d.upload, IsFolder)
filesToUpload(d) == SelectSeq(SelectSeq(d.upload, IsFile), NotState)
filesToReplace(d) == SelectSeq(SelectSeq(d.replace, IsFile), NotState)
filesToDelete(d) == SelectSeq(d.delete, IsFile)
foldersToDelete(d) == SelectSeq(d.delete, IsFolder)

\* a deployment that deletes old files before it replaces changed ones
PhaseOrderDeleteFirst ==
  <<"createFolders", "uploadFiles", "deleteFiles", "replaceFiles",
    "deleteFolders", "saveState">>

\* the statements of the try block of lines 349-386, in program order
PhaseOrder ==
  <<"createFolders", "uploadFiles", "replaceFiles", "deleteFiles",
    "deleteFolders", "saveState">>

PhaseIndex(ph) == CHOOSE i \in 1..Len(PhaseOrder) : PhaseOrder[i] = ph
Loops == {PhaseOrder[i] : i \in 1..5}

PhaseList(ph, d) ==
  CASE ph = "createFolders" -> foldersToCreate(d)
    [] ph = "uploadFiles" -> filesToUpload(d)
    [] ph = "replaceFiles" -> filesToReplace(d)
    [] ph = "deleteFiles" -> filesToDelete(d)
    [] ph = "deleteFolders" -> foldersToDelete(d)

\* the content read from the local file filePath
LocalContent(filePath) ==
  IF filePath = StateName THEN localState
  ELSE Blob((CHOOSE o \in localTree : o.name = filePath /\ o.type = "file").content)

Tagged(o, ph) ==
  [op |-> o.op, target |-> o.target, res |-> o.res, reply |-> o.reply, phase |-> ph]
Tag(issued, ph) == [i \in 1..Len(issued) |-> Tagged(issued[i], ph)]

\* a catch that logs the error and resumes the loop it came from
AfterCatchResume(code) == IF code = NoUploadAccess THEN "done" ELSE pc

\* where control goes from the catch of lines 387-394: code 553 returns from
\* deploy, any other error falls through to client.close()
AfterCatch(code) == IF code = NoUploadAccess THEN "done" ELSE "close"

\* a connect failure that is logged inside the outer try, before line 311
AfterConnectFailureGoOn == "fetch"

\* where control goes when client.access throws: the catch of lines 407-409
AfterConnectFailure == "close"

\* the catch of lines 387-394
Catch387(code) ==
  /\ fatal' = pc
  /\ pc' = AfterCatch(code)
  /\ log' = log \cup {IF code = NoUploadAccess
                        THEN "warn: Error 553, you don't have access to upload the file"
                        ELSE "warn: Error:"}
  /\ result' = IF pc' = "done" THEN "resolved" ELSE result

\* the state when deploy() is entered, for local and previous trees of TreeSet
InitOver(TreeSet) ==
  /\ pc = "hash"
  /\ cleanSlate \in BOOLEAN
  /\ localTree \in TreeSet
  /\ localFiles = EmptyFileList
  /\ localState = Blob(0)
  /\ serverFiles = EmptyFileList
  /\ fetched = "none"
  /\ diffs = NoDiffs
  /\ idx = 1
  /\ cwd = Root
  /\ \E prevTree \in TreeSet, doc \in {"absent", "unparsable", "malformed", "complete"} :
       \* the state document is not read in 'dangerous-clean-slate' mode
       /\ cleanSlate => doc = "complete"
       /\ LET prev == getLocalFiles(prevTree)
              plain == {o \in prevTree : o.type = "file" /\ o.name # StateName}
              held == {Root \o o.name : o \in plain}
                        \cup (IF doc = "absent" THEN {} ELSE {Root \o StateName})
          IN  /\ remoteDirs =
                   {SubSeq(Root, 1, k) : k \in 0..RootDepth}
                   \cup {Root \o o.name : o \in {x \in prevTree : x.type = "folder"}}
              /\ remoteFiles =
                   [p \in held |->
                      IF p # Root \o StateName
                        THEN Blob((CHOOSE o \in plain : Root \o o.name = p).content)
                      ELSE IF doc = "unparsable" THEN Blob(0)
                      ELSE IF doc = "malformed"
                        THEN [Stringify(prev) EXCEPT !.complete = FALSE]
                      ELSE Stringify(prev)]
  /\ remote0 = [dirs |-> remoteDirs, files |-> remoteFiles]
  /\ ops = <<>>
  /\ log = {}
  /\ result = "pending"
  /\ closed = 0
  /\ fatal = "none"
  /\ run = 1
  /\ inflight = FALSE

Init == InitOver(Trees)

\* A file fileHash cannot open or read.  fs.createReadStream does not throw:
\* the stream emits 'error', for which lines 20-27 register no listener, so
\* the try of lines 19-31 catches nothing and neither resolve nor reject is
\* called.  The unhandled 'error' event is raised as an uncaught exception:
\* it ends the process, or, where the host handles it, the promise of
\* fileHash stays pending for ever.
Unreadable == {"crashed", "pending"}

\* lines 291-295: getLocalFiles, then the local copy of the state document
Hash ==
  /\ pc = "hash"
  /\ \E outcome \in {"hashed", "walkFails", "unreadable"} :
       CASE outcome = "hashed" ->
              /\ localFiles' = getLocalFiles(localTree)
              /\ localState' = Stringify(localFiles')
              /\ pc' = "connect"
              /\ UNCHANGED <<result, fatal>>
         [] outcome = "walkFails" ->
              \* readdir.async rejects and line 292 is outside every try
              /\ pc' = "done"
              /\ result' = "rejected"
              /\ fatal' = "walk"
              /\ UNCHANGED <<localFiles, localState>>
         [] outcome = "unreadable" ->
              /\ \E o \in localTree : o.type = "file"
              /\ pc' = "done"
              /\ result' \in Unreadable
              /\ fatal' = "hash"
              /\ UNCHANGED <<localFiles, localState>>
  /\ UNCHANGED <<run, inflight, remote0, cleanSlate, localTree, serverFiles, fetched, diffs, idx, cwd,
                 remoteDirs, remoteFiles, ops, log, closed>>

\* lines 301-309 and the catch of lines 407-409
Connect ==
  /\ pc = "connect"
  /\ \E connected \in BOOLEAN :
       IF connected
         THEN /\ pc' = "fetch"
              /\ ops' = Append(ops, Tagged(Op("access", <<>>, "ok", 0), "connect"))
              /\ UNCHANGED <<log, fatal>>
         ELSE /\ pc' = AfterConnectFailure
              /\ ops' = Append(ops, Tagged(Op("access", <<>>, "fatal", 1), "connect"))
              /\ log' = log \cup {"warn: connect"}
              /\ fatal' = "connect"
  /\ UNCHANGED <<run, inflight, remote0, cleanSlate, localTree, localFiles, localState, serverFiles,
                 fetched, diffs, idx, cwd, remoteDirs, remoteFiles, result, closed>>

\* the log lines of the catch of lines 328-341
FirstPublish == {"all: No file exists on the server"}

\* lines 315-322 in 'dangerous-clean-slate' mode; the throw of line 321 and a
\* throw of clearWorkingDir both land in the catch of lines 328-341
Wipe ==
  /\ pc = "fetch"
  /\ cleanSlate
  /\ \E cleared \in BOOLEAN, code \in ErrCodes :
       IF cleared
         THEN /\ remoteDirs' = ClearWorkingDir(Sess).dirs
              /\ remoteFiles' = ClearWorkingDir(Sess).files
              /\ ops' = Append(ops, Tagged(Op("clearWorkingDir", cwd, "ok", 0), "fetch"))
              /\ fetched' = "wiped"
         ELSE /\ UNCHANGED <<remoteDirs, remoteFiles>>
              /\ ops' = Append(ops, Tagged(Op("clearWorkingDir", cwd, "caught", code), "fetch"))
              /\ fetched' = "wipeFailed"
  /\ serverFiles' = EmptyFileList
  /\ log' = log \cup FirstPublish
  /\ pc' = "diff"
  /\ UNCHANGED <<run, inflight, remote0, cleanSlate, localTree, localFiles, localState, diffs, idx, cwd,
                 result, closed, fatal>>

\* downloadFileList (lines 96-121) as called at line 324, with the catch of
\* lines 328-341
Download ==
  /\ pc = "fetch"
  /\ ~ cleanSlate
  /\ \E refused \in BOOLEAN, code \in ErrCodes :
       LET target == cwd \o StateName
           reply == IF target \notin DOMAIN remoteFiles THEN "absent"
                    ELSE IF refused THEN "downloadFailed"
                    ELSE IF ~ JsonParses(remoteFiles[target]) THEN "unparsable"
                    ELSE IF remoteFiles[target].complete THEN "complete"
                    ELSE "malformed"
           resolved == reply \in {"complete", "malformed"}
       IN  /\ fetched' = reply
           /\ ops' = Append(ops, Tagged(
                             IF reply = "absent"
                               THEN Op("downloadTo", target, "caught", FileNotFoundOrNoAccess)
                             ELSE IF reply = "downloadFailed"
                               THEN Op("downloadTo", target, "caught", code)
                             ELSE Op("downloadTo", target, "ok", 0), "fetch"))
           /\ serverFiles' = IF resolved THEN JsonParse(remoteFiles[target])
                             ELSE EmptyFileList
           /\ log' = log \cup (IF resolved THEN {"all: Last published on"}
                               ELSE FirstPublish)
           \* lines 106-119: the promise settles in the 'finish' handler of the
           \* local stream, whether or not client.downloadTo has settled
           /\ inflight' \in (IF reply \in {"absent", "downloadFailed"}
                               THEN {FALSE} ELSE BOOLEAN)
  /\ pc' = "diff"
  /\ UNCHANGED <<run, remote0, cleanSlate, localTree, localFiles, localState, diffs, idx, cwd,
                 remoteDirs, remoteFiles, result, closed, fatal>>

\* a deploy that hands getDiffs the empty list in place of the downloaded one
DiffFromScratch ==
  /\ pc = "diff"
  /\ diffs' = getDiffs(localFiles, EmptyFileList)
  /\ pc' = PhaseOrder[1]
  /\ idx' = 1
  /\ UNCHANGED <<run, inflight, remote0, cleanSlate, localTree, localFiles, localState,
                 serverFiles, fetched, cwd, remoteDirs, remoteFiles, ops, log, result,
                 closed, fatal>>

\* lines 343-355
Diff ==
  /\ pc = "diff"
  /\ diffs' = getDiffs(localFiles, serverFiles)
  /\ pc' = PhaseOrder[1]
  /\ idx' = 1
  /\ UNCHANGED <<run, inflight, remote0, cleanSlate, localTree, localFiles, localState, serverFiles,
                 fetched, cwd, remoteDirs, remoteFiles, ops, log, result,
                 closed, fatal>>

\* one iteration of a loop of lines 357-381: r is what the handler returned
Iteration(ph, r) ==
  /\ ~ inflight
  /\ cwd' = r.s.cwd
  /\ remoteDirs' = r.s.dirs
  /\ remoteFiles' = r.s.files
  /\ ops' = ops \o Tag(r.ops, ph)
  /\ IF r.err = 0
       THEN /\ idx' = idx + 1
            /\ log' = log \cup {"info: could not remove. It doesn't exist!" :
                                  i \in {j \in 1..Len(r.ops) : r.ops[j].res = "tolerated"}}
            /\ UNCHANGED <<pc, result, fatal>>
       ELSE /\ Catch387(r.err)
            /\ idx' = idx
  /\ UNCHANGED <<run, inflight, remote0, cleanSlate, localTree, localFiles, localState, serverFiles,
                 fetched, diffs, closed>>

InLoop(ph) == pc = ph /\ idx <= Len(PhaseList(ph, diffs))
Item(ph) == PhaseList(ph, diffs)[idx]

\* lines 358-360
CreateFolders ==
  /\ InLoop("createFolders")
  /\ \E failAt \in {0, 1, 3}, code \in ErrCodes :
       Iteration("createFolders",
                 createFolder(Sess, Item("createFolders").name, failAt, code))

\* lines 363-365
UploadFiles ==
  /\ InLoop("uploadFiles")
  /\ \E failAt \in 0..3, code \in ErrCodes :
       LET name == Item("uploadFiles").name
       IN  Iteration("uploadFiles",
                     uploadFile(Sess, name, LocalContent(name), failAt, code))

\* lines 368-371
ReplaceFiles ==
  /\ InLoop("replaceFiles")
  /\ \E failAt \in 0..3, code \in ErrCodes :
       LET name == Item("replaceFiles").name
       IN  Iteration("replaceFiles",
                     uploadFile(Sess, name, LocalContent(name), failAt, code))

\* lines 374-376
DeleteFiles ==
  /\ InLoop("deleteFiles")
  /\ \E failAt \in 0..3, code \in ErrCodes :
       Iteration("deleteFiles",
                 removeFile(Sess, Item("deleteFiles").name, failAt, code))

\* lines 379-381
DeleteFolders ==
  /\ InLoop("deleteFolders")
  /\ \E failAt \in {0, 1, 3}, code \in ErrCodes :
       Iteration("deleteFolders",
                 removeFolder(Sess, Item("deleteFolders").name, failAt, code))

\* a loop of lines 357-381 has run out of items: the next statement
NextPhase ==
  /\ pc \in Loops
  /\ idx > Len(PhaseList(pc, diffs))
  /\ pc' = PhaseOrder[PhaseIndex(pc) + 1]
  /\ idx' = 1
  /\ UNCHANGED <<run, inflight, remote0, cleanSlate, localTree, localFiles, localState, serverFiles,
                 fetched, diffs, cwd, remoteDirs, remoteFiles, ops, log, result,
                 closed, fatal>>

\* line 385: client.uploadFrom(args["state-name"], args["state-name"])
SaveState ==
  /\ pc = "saveState"
  /\ ~ inflight
  /\ \E refused \in BOOLEAN, code \in ErrCodes :
       LET name == Last(StateName)
           target == cwd \o <<name>>
           reply == IF UploadBlocked(Sess, name) THEN FileNotFoundOrNoAccess
                    ELSE IF refused THEN code ELSE 0
       IN  IF reply = 0
             THEN /\ remoteFiles' = UploadFrom(Sess, name, LocalContent(StateName)).files
                  /\ ops' = Append(ops, Tagged(Op("uploadFrom", target, "ok", 0), "saveState"))
                  /\ log' = log \cup {"all: Sync complete"}
                  /\ pc' = "close"
                  /\ UNCHANGED <<result, fatal>>
             ELSE /\ remoteFiles' = remoteFiles
                  /\ ops' = Append(ops, Tagged(Op("uploadFrom", target, "fatal", reply), "saveState"))
                  /\ Catch387(reply)
  /\ UNCHANGED <<run, inflight, remote0, cleanSlate, localTree, localFiles, localState, serverFiles,
                 fetched, diffs, idx, cwd, remoteDirs, closed>>

\* lines 410-421: client.close() and the return of deploy
Close ==
  /\ pc = "close"
  /\ closed' = closed + 1
  /\ result' = "resolved"
  /\ pc' = "done"
  /\ UNCHANGED <<run, inflight, remote0, cleanSlate, localTree, localFiles, localState, serverFiles,
                 fetched, diffs, idx, cwd, remoteDirs, remoteFiles, ops, log, fatal>>

\* the reply that ends client.downloadTo of line 116 arrives
Settle ==
  /\ inflight
  /\ inflight' = FALSE
  /\ UNCHANGED <<run, remote0, cleanSlate, localTree, localFiles, localState,
                 serverFiles, fetched, diffs, idx, cwd, remoteDirs, remoteFiles,
                 ops, log, result, closed, fatal, pc>>

\* The first client call of phases 1-6 made while client.downloadTo of line
\* 116 has not settled: the client refuses a task while another one is
\* running and closes the session with an error that carries no reply code;
\* the catch of lines 387-394 takes it.
Overlap ==
  /\ inflight
  /\ pc = "saveState" \/ \E ph \in Loops : InLoop(ph)
  /\ ops' = Append(ops, Tagged(Op("task", cwd, "fatal", 1), pc))
  /\ Catch387(1)
  /\ inflight' = FALSE
  /\ UNCHANGED <<run, remote0, cleanSlate, localTree, localFiles, localState,
                 serverFiles, fetched, diffs, idx, cwd, remoteDirs, remoteFiles,
                 closed>>

\* deploy() is run again, with the same arguments and the same local tree,
\* after a run that ended on a fatal error in phases 1-6
Retry ==
  /\ pc = "done"
  /\ fatal \in Loops \cup {"saveState"}
  /\ run < MaxRuns
  /\ run' = run + 1
  /\ pc' = "hash"
  /\ localFiles' = EmptyFileList
  /\ localState' = Blob(0)
  /\ serverFiles' = EmptyFileList
  /\ fetched' = "none"
  /\ diffs' = NoDiffs
  /\ idx' = 1
  /\ cwd' = Root
  /\ ops' = <<>>
  /\ log' = {}
  /\ result' = "pending"
  /\ closed' = 0
  /\ fatal' = "none"
  /\ UNCHANGED <<inflight, remote0, cleanSlate, localTree, remoteDirs, remoteFiles>>

Next ==
  \/ Hash
  \/ Connect
  \/ Wipe
  \/ Download
  \/ Diff
  \/ CreateFolders
  \/ UploadFiles
  \/ ReplaceFiles
  \/ DeleteFiles
  \/ DeleteFolders
  \/ NextPhase
  \/ SaveState
  \/ Close
  \/ Settle
  \/ Overlap

Spec == Init /\ [][Next]_vars

(***************************************************************************)
(* Properties.                                                             *)
(***************************************************************************)
Root0 == Root \o StateName
Mutating == {"ensureDir", "uploadFrom", "remove", "removeDir", "clearWorkingDir"}
PhasesOf(S) == {ops[k].phase : k \in {j \in 1..Len(ops) : ops[j].op \in S}}

\* the rank the specification gives each phase (section 4.5, steps 1-6)
StepNumber(ph) ==
  CASE ph = "createFolders" -> 1
    [] ph = "uploadFiles" -> 2
    [] ph = "replaceFiles" -> 3
    [] ph = "deleteFiles" -> 4
    [] ph = "deleteFolders" -> 5
    [] ph = "saveState" -> 6
    [] OTHER -> 0

\* what each phase is allowed to change on the remote
PhaseMutations(ph) ==
  CASE ph = "createFolders" -> {"ensureDir"}
    [] ph = "uploadFiles" -> {"ensureDir", "uploadFrom"}
    [] ph = "replaceFiles" -> {"ensureDir", "uploadFrom"}
    [] ph = "deleteFiles" -> {"ensureDir", "remove"}
    [] ph = "deleteFolders" -> {"removeDir"}
    [] ph = "saveState" -> {"uploadFrom"}
    [] OTHER -> {"clearWorkingDir"}

\* C1: the remote operations of a run are issued in the fixed phase order:
\* folder creations for toUpload, uploads of toUpload files, uploads of
\* toReplace files, file deletions, folder deletions, the state document;
\* no operation of a later phase is issued before one of an earlier phase,
\* and each phase issues only its own kind of mutation.
C1_PhaseOrder ==
  /\ \A i, j \in 1..Len(ops) :
       i < j => StepNumber(ops[i].phase) <= StepNumber(ops[j].phase)
  /\ \A k \in 1..Len(ops) :
       ops[k].op \in Mutating => ops[k].op \in PhaseMutations(ops[k].phase)
  /\ \A k \in 1..Len(ops) :
       ops[k].phase = "uploadFiles" /\ ops[k].op = "uploadFrom" =>
         \E i \in 1..Len(diffs.upload) :
           ops[k].target = Root \o diffs.upload[i].name
  /\ \A k \in 1..Len(ops) :
       ops[k].phase = "replaceFiles" /\ ops[k].op = "uploadFrom" =>
         \E i \in 1..Len(diffs.replace) :
           ops[k].target = Root \o diffs.replace[i].name

\* a run that went through uploads, replacements, both deletions and the
\* state document without a fatal error
C1_Witness ==
  /\ pc = "done"
  /\ fatal = "none"
  /\ {"uploadFiles", "replaceFiles", "deleteFiles", "deleteFolders", "saveState"}
       \subseteq PhasesOf(Mutating)

\* a run that created folders and then uploaded into them
C1_WitnessCreate ==
  /\ pc = "done"
  /\ fatal = "none"
  /\ {"createFolders", "uploadFiles", "saveState"} \subseteq PhasesOf(Mutating)

Removals == {k \in 1..Len(ops) : ops[k].op \in {"remove", "removeDir"}}
Count(name) == Cardinality({k \in 1..Len(ops) : ops[k].op = name})

\* C3: a NotFound reply to the delete of removeFile or removeFolder is
\* tolerated: it does not end the run, and a run in which nothing else fails
\* deletes (or finds absent) every entry of toDelete and uploads the state
\* document.
C3_NotFoundTolerated ==
  /\ \A k \in Removals :
       ops[k].reply = FileNotFoundOrNoAccess =>
         /\ ops[k].res = "tolerated"
         /\ fatal # "none" => \E j \in (k + 1)..Len(ops) : ops[j].res = "fatal"
  /\ (pc = "done" /\ fatal = "none") =>
       /\ Count("remove") = Len(filesToDelete(diffs))
       /\ Count("removeDir") = Len(foldersToDelete(diffs))
       /\ ops[Len(ops)].phase = "saveState"

\* a finished run in which a file delete and a folder delete were both
\* answered NotFound, followed by further deletes and the state upload
C3_Witness ==
  /\ pc = "done"
  /\ fatal = "none"
  /\ \E k \in Removals :
       /\ ops[k].op = "remove"
       /\ ops[k].res = "tolerated"
       /\ \E j \in Removals : j > k /\ ops[j].res = "ok"
  /\ \E k \in Removals : ops[k].op = "removeDir" /\ ops[k].res = "tolerated"
  /\ ops[Len(ops)].op = "uploadFrom" /\ ops[Len(ops)].phase = "saveState"

\* C4: after a remote operation of phases 1-5 has failed with an error that
\* is not a tolerated NotFound, the run issues no further remote operation:
\* the failed operation is the last one, and the remote store stays as the
\* operations before it left it.
C4_NoMutationAfterFatal ==
  /\ \A k \in 1..Len(ops) :
       ops[k].res = "fatal" /\ StepNumber(ops[k].phase) \in 1..5 => k = Len(ops)
  /\ StepNumber(fatal) \in 1..5 =>
       /\ ops[Len(ops)].res = "fatal"
       /\ pc \in {"close", "done"}

C4_Step ==
  [][StepNumber(fatal) \in 1..5 =>
       UNCHANGED <<ops, remoteDirs, remoteFiles, cwd>>]_vars

\* a run that failed in the delete phases after it had uploaded a file, with
\* the uploaded file still on the remote
C4_Witness ==
  /\ pc = "done"
  /\ fatal \in {"deleteFiles", "deleteFolders"}
  /\ \E k \in 1..Len(ops) :
       /\ ops[k].op = "uploadFrom"
       /\ ops[k].res = "ok"
       /\ ops[k].target \in DOMAIN remoteFiles
       /\ ops[k].target \notin DOMAIN remote0.files

\* C5: when connecting fails the run ends without any remote mutation: no
\* wipe, folder creation, upload, delete or state upload is issued and the
\* remote store is as it was.
C5_ConnectFailure ==
  fatal = "connect" =>
    /\ \A k \in 1..Len(ops) : ops[k].op = "access"
    /\ remoteDirs = remote0.dirs
    /\ remoteFiles = remote0.files
    /\ pc \in {"close", "done"}

\* a finished run whose connect failed although there was work to do
C5_Witness ==
  /\ pc = "done"
  /\ fatal = "connect"
  /\ localTree # {}
  /\ cleanSlate

BeforePhase6(ph) == ph \in {"walk", "hash", "connect"} \/ StepNumber(ph) \in 1..5
Started == fetched # "none"
Warned == \E line \in log : SubSeq(line, 1, 5) = "warn:"

\* C2: the state document is uploaded only when every operation of phases
\* 1-5 succeeded or ended in a tolerated NotFound, and a run with a fatal
\* error before phase 6 leaves the remote state document as it found it
\* (stated for runs without 'dangerous-clean-slate', whose wipe removes the
\* document before phase 1).
C2_StateDocOnlyOnSuccess ==
  /\ \A k \in 1..Len(ops) :
       ops[k].phase = "saveState" =>
         \A j \in 1..Len(ops) :
           StepNumber(ops[j].phase) \in 1..5 => ops[j].res \in {"ok", "tolerated"}
  /\ (~ cleanSlate /\ BeforePhase6(fatal)) =>
       /\ Root0 \in DOMAIN remoteFiles <=> Root0 \in DOMAIN remote0.files
       /\ Root0 \in DOMAIN remoteFiles => remoteFiles[Root0] = remote0.files[Root0]

\* C6: when the remote state document is absent, cannot be downloaded or
\* cannot be decoded into a complete inventory, the previous inventory is the
\* empty one and the run is a full sync; an inventory that is not complete is
\* never used for the diff.
C6_Bootstrap ==
  (~ cleanSlate /\ Started) =>
    /\ fetched # "complete" => serverFiles = EmptyFileList
    /\ serverFiles.complete
    /\ (fetched # "complete" /\ pc # "diff") =>
         diffs = getDiffs(localFiles, EmptyFileList)

\* C7: in 'dangerous-clean-slate' mode the remote target is wiped before any
\* other remote mutation, the state document is not downloaded, the previous
\* inventory is empty, and phases 1-6 start only after the wipe has completed.
C7_WipeFirst ==
  cleanSlate =>
    /\ Started => serverFiles = EmptyFileList
    /\ \A k \in 1..Len(ops) : ops[k].op # "downloadTo"
    /\ StepNumber(pc) \in 1..6 => fetched = "wiped"
    /\ \A k \in 1..Len(ops) :
         StepNumber(ops[k].phase) \in 1..6 =>
           \E j \in 1..(k - 1) : ops[j].op = "clearWorkingDir" /\ ops[j].res = "ok"

\* C8: in phases 1-5 the file at the state-document path is neither uploaded
\* nor deleted, whatever the inventories list.
C8_StatePathUntouched ==
  \A k \in 1..Len(ops) :
    (StepNumber(ops[k].phase) \in 1..5 /\ ops[k].op \in {"uploadFrom", "remove"})
      => ops[k].target # Root0

\* C9: after every completed createFolder, uploadFile, removeFile and
\* removeFolder the working directory of the session is the synchronization
\* root.
C9_BackAtRoot ==
  (pc \in Loops \/ pc = "saveState") => cwd = Root

\* C10: a run in which a fatal condition of the session occurred (connect,
\* transfer or state upload) ends with a failure result the caller can tell
\* from success, and the error is logged.
C10_FailureSurfaces ==
  (pc = "done" /\ fatal \notin {"none", "walk", "hash"}) =>
    /\ result = "rejected"
    /\ Warned

(***************************************************************************)
(* Runs that are tried again.                                              *)
(***************************************************************************)
\* the trees of the runs that are tried again: a, d and d/b
RetryTrees ==
  {T \in Trees : \A o \in T : o.name \in {<<"a">>, <<"d">>, <<"d", "b">>}}

InitRetry == InitOver(RetryTrees)

NextRetry == Next \/ Retry

SpecRetry == InitRetry /\ [][NextRetry]_vars

\* the remote store at the start of the first run held a complete state
\* document (and, as Init builds it, exactly the entries it lists)
Consistent0 ==
  /\ Root0 \in DOMAIN remote0.files
  /\ JsonParses(remote0.files[Root0])
  /\ remote0.files[Root0].complete

\* every remote operation of the run succeeded, or was answered NotFound for
\* an entry that is indeed not on the remote
AllSucceeded ==
  \A k \in 1..Len(ops) :
    \/ ops[k].res = "ok"
    \/ /\ ops[k].res = "tolerated"
       /\ ops[k].target \notin DOMAIN remoteFiles
       /\ ops[k].target \notin remoteDirs

\* the files of the current inventory, the state document aside
CurrentFiles == {o \in localTree : o.type = "file" /\ o.name # StateName}
\* the files below the synchronization root, the state document aside
RemoteUnderRoot == {p \in DOMAIN remoteFiles : IsPrefix(Root, p) /\ p # Root0}

\* the remote holds exactly the files of the current inventory
FilesInSync ==
  /\ RemoteUnderRoot = {Root \o o.name : o \in CurrentFiles}
  /\ \A o \in CurrentFiles : remoteFiles[Root \o o.name] = Blob(o.content)

\* the remote state document encodes the current inventory
StateInSync ==
  /\ Root0 \in DOMAIN remoteFiles
  /\ remoteFiles[Root0] = Stringify(getLocalFiles(localTree))

\* C11: from a remote store consistent with its state document, after a run
\* that failed part-way in phases 1-6 and left the state document as it was,
\* a later run with the same local tree in which every remote operation
\* succeeds completes phase 6 and leaves on the remote exactly the files of
\* the current inventory and the current inventory as state document.
C11_ConvergesOnRetry ==
  (run > 1 /\ ~ cleanSlate /\ Consistent0 /\ pc = "done" /\ fatal = "none"
     /\ AllSucceeded) =>
    /\ ops[Len(ops)].phase = "saveState"
    /\ FilesInSync
    /\ StateInSync

\* the previous inventory was read from the remote state document
ReadFromRemote == fetched \in {"complete", "malformed"}
\* the diff has been computed
Diffed == Started /\ pc # "diff"

\* C12: when the previous inventory read from the remote equals the current
\* local inventory, the edit script has three empty lists and zero totals,
\* and the only remote mutation of the run is the phase 6 upload of the state
\* document.
C12_Idempotent ==
  (ReadFromRemote /\ Diffed /\ serverFiles.data = localFiles.data) =>
    /\ diffs = NoDiffs
    /\ \A ph \in Loops : PhaseList(ph, diffs) = <<>>
    /\ \A k \in 1..Len(ops) :
         ops[k].op \in Mutating =>
           ops[k].op = "uploadFrom" /\ ops[k].phase = "saveState"

\* a finished run over a local tree with files and folders that equals the
\* downloaded inventory: one mutation, the state upload
C12_Witness ==
  /\ pc = "done"
  /\ fatal = "none"
  /\ fetched = "complete"
  /\ serverFiles.data = localFiles.data
  /\ \E x, y \in localFiles.data : x.type = "file" /\ y.type = "folder"
  /\ Cardinality({k \in 1..Len(ops) : ops[k].op \in Mutating}) = 1
  /\ ops[Len(ops)].op = "uploadFrom"

(***************************************************************************)
(* Runs over a tree in which a path changes kind.                          *)
(***************************************************************************)
InitKind == InitOver(KindTrees)

SpecKind == InitKind /\ [][Next]_vars

\* the paths of the two inventories handed to the diff
Paths == {e.name : e \in serverFiles.data \cup localFiles.data}
Has(inv, p) == \E e \in inv.data : e.name = p
EntryOf(inv, p) == CHOOSE e \in inv.data : e.name = p
Listed(list, p) == \E i \in 1..Len(list) : list[i].name = p
ListedAs(list, e) == \E i \in 1..Len(list) : list[i] = e

\* in both inventories with a different kind
KindDiffers(p) ==
  /\ Has(serverFiles, p)
  /\ Has(localFiles, p)
  /\ EntryOf(serverFiles, p).type # EntryOf(localFiles, p).type

\* the no-op class of section 4.4: in both, both folders, or both files with
\* equal fingerprint and size
NoOp(p) ==
  /\ Has(serverFiles, p)
  /\ Has(localFiles, p)
  /\ LET old == EntryOf(serverFiles, p)
         new == EntryOf(localFiles, p)
     IN  /\ old.type = new.type
         /\ old.type = "file" => (old.hash = new.hash /\ old.size = new.size)

\* the classes of the edit script a path falls in
Classes(p) ==
  {c \in {"noOp", "toUpload", "toReplace", "toDelete"} :
     CASE c = "noOp" -> NoOp(p)
       [] c = "toUpload" -> Listed(diffs.upload, p)
       [] c = "toReplace" -> Listed(diffs.replace, p)
       [] c = "toDelete" -> Listed(diffs.delete, p)}

\* C13 as stated: every path of either inventory falls in exactly one of the
\* four classes no-op, toUpload, toReplace, toDelete.
C13_Partition ==
  Diffed => \A p \in Paths : Cardinality(Classes(p)) = 1

\* C13, amended: every path whose kind does not differ between the two
\* inventories falls in exactly one of the four classes; a path whose kind
\* differs falls in exactly two, toDelete with its previous entry and
\* toUpload with its current entry.
C13_PartitionByKind ==
  Diffed =>
    \A p \in Paths :
      IF KindDiffers(p)
        THEN /\ Classes(p) = {"toUpload", "toDelete"}
             /\ ListedAs(diffs.delete, EntryOf(serverFiles, p))
             /\ ListedAs(diffs.upload, EntryOf(localFiles, p))
        ELSE Cardinality(Classes(p)) = 1

\* an edit script computed for inventories in which k changed kind while
\* another path kept it
C13_Witness ==
  /\ Diffed
  /\ KindDiffers(<<"k">>)
  /\ Listed(diffs.upload, <<"k">>)
  /\ Listed(diffs.delete, <<"k">>)
  /\ \E p \in Paths : ~ KindDiffers(p) /\ Cardinality(Classes(p)) = 1

\* C14: when the remote store holds at the start exactly the entries of the
\* previous inventory recorded in its state document and every remote
\* operation of the run succeeds, then after the run the remote files (the
\* state document aside) are the files of the current inventory, with their
\* content, and the remote state document encodes the current inventory.
C14_EndToEnd ==
  (Consistent0 /\ pc = "done" /\ fatal = "none" /\ AllSucceeded) =>
    /\ FilesInSync
    /\ StateInSync

\* the remote holds the current kind of p at its path below the root
HoldsNewKind(p) ==
  LET new == EntryOf(localFiles, p) IN
  IF new.type = "folder"
    THEN (Root \o p) \in remoteDirs /\ (Root \o p) \notin DOMAIN remoteFiles
    ELSE /\ (Root \o p) \in DOMAIN remoteFiles
         /\ (Root \o p) \notin remoteDirs
         /\ remoteFiles[Root \o p] = Blob(new.hash)

\* C15: a path that is a file in the previous inventory and a folder in the
\* current one, or the reverse, is applied as delete-old-kind plus
\* upload-new-kind; when the creation of the new kind is issued the old kind
\* is no longer in its way, and a run without fatal error ends with the
\* remote holding the new kind at that path.
C15_KindChange ==
  Diffed =>
    \A p \in Paths :
      KindDiffers(p) =>
        /\ Listed(diffs.delete, p) /\ Listed(diffs.upload, p)
        /\ (InLoop("createFolders") /\ Item("createFolders").name = p) =>
             (Root \o p) \notin DOMAIN remoteFiles
        /\ (InLoop("uploadFiles") /\ Item("uploadFiles").name = p) =>
             (Root \o p) \notin remoteDirs
        /\ (pc = "done" /\ fatal = "none") => HoldsNewKind(p)

\* q is a folder strictly below p
Below(p, q) == IsPrefix(p, q) /\ p # q

\* C16: the folders of toDelete are deleted in order of descending depth:
\* when phase 5 comes to delete a folder, every folder of toDelete below it
\* has been dealt with before.
C16_DeepestFirst ==
  InLoop("deleteFolders") =>
    \A j \in 1..Len(foldersToDelete(diffs)) :
      Below(Item("deleteFolders").name, foldersToDelete(diffs)[j].name) => j < idx

\* what downloadFileList of the next run would return: the document at the
\* state path below the root, parsed
NextPrevious == JsonParse(remoteFiles[Root0])

\* C17: the phase 6 upload writes the state document at the state path
\* below the synchronization root, where the next run downloads it, and
\* after a run without fatal error the next run's previous inventory is
\* this run's current inventory.
C17_StateHandOver ==
  /\ \A k \in 1..Len(ops) :
       (ops[k].phase = "saveState" /\ ops[k].op = "uploadFrom") =>
         ops[k].target = Root0
  /\ (pc = "done" /\ fatal = "none") =>
       /\ Root0 \in DOMAIN remoteFiles
       /\ JsonParses(remoteFiles[Root0])
       /\ NextPrevious = localFiles

\* C18: when a local file cannot be opened or read while the inventory is
\* built, the hash operation fails (it neither yields a digest nor stays
\* pending), the run ends with a failure the caller receives, and no remote
\* operation is issued.
C18_HashFailure ==
  fatal = "hash" =>
    /\ pc = "done"
    /\ result = "rejected"
    /\ ops = <<>>
    /\ remoteDirs = remote0.dirs /\ remoteFiles = remote0.files

\* client.access of line 303 has been attempted
AccessAttempted == \E k \in 1..Len(ops) : ops[k].op = "access"

\* C19: on every path on which deploy returns after client.access was
\* attempted, client.close() has been called exactly once.
C19_ClosedOnce ==
  /\ closed <= 1
  /\ (pc = "done" /\ AccessAttempted) => closed = 1

\* C20: the remote operations of a run are strictly sequential: no remote
\* operation is issued while the result of an earlier one is not yet known.
C20_Sequential ==
  [][ops' # ops => ~ inflight]_vars

====
